---- MODULE Spec2Model ----
(***************************************************************************)
(* Model of the Jokusoramame bot orchestrator (src/joku/bot.py): the       *)
(* on_ready startup sequence, the game-text rotator task, the message      *)
(* intake gate, the command-error translator and the reconnect loop.       *)
(***************************************************************************)
EXTENDS Integers, Sequences, FiniteSets, TLC

\* ------------------------------------------------------------------ bounds
MaxReady == 2        \* on_ready runs (gateway handshakes) explored
MaxAutoload == 2     \* longest autoload list explored
MaxRotation == 2     \* longest game_rotation list explored
MaxUpdates == 3      \* presence updates one rotator task may issue
MaxHandles == 3      \* transport handles the reconnect loop may create

\* ------------------------------------------------------- program constants
NormalClosure == 1000          \* bot.py:275  e.code != 1000
SleepInterval == 15            \* bot.py:121  asyncio.sleep(15)

\* --------------------------------------------------------- input universes
Cogs == {"cogA", "cogB"}
ReadyHookCogs == {"cogA"}      \* cogs for which hasattr(cog, "ready") holds
Games == <<"x", "y", "z">>
CloseCodes == {1000, 4004}

Range(s) == {s[i] : i \in DOMAIN s}

Injective(s) == \A i, j \in DOMAIN s : s[i] = s[j] => i = j

\* config["autoload"]: lists of distinct cog names
AutoloadLists ==
    {s \in UNION {[1..n -> Cogs] : n \in 0..MaxAutoload} : Injective(s)}

\* config["game_rotation"]: a list of n distinct status strings
RotationLists ==
    {SubSeq(Games, 1, n) : n \in 0..(IF MaxRotation < Len(Games) THEN MaxRotation ELSE Len(Games))}

VARIABLES
    config,         \* self.config: [autoload, game_rotation, developer_mode]
    rethinkdb,      \* self.rethinkdb.connection: "none" | "open" | "closed"
    rdblog,         \* self.rdblog.connection:    "none" | "open" | "closed"
    redis,          \* self.redis connection:     "none" | "open"
    is_closed,      \* self.is_closed
    extensions,     \* self.extensions / self.cogs: names of the loaded cogs
    rotator_task,   \* self._rotator_task: 0 is None, else an index into tasks
    tasks,          \* every rotator task ever created, in creation order
    presence,       \* presence updates issued so far: <<task, name>>
    ready,          \* the on_ready run in progress (or the last one finished)
    ev,             \* the message event being handled (or the last one handled)
    ws,             \* self.ws: the transport handle, [id, resume]; id 0 is none
    link,           \* the connect() call: position, close code, outcome
    prefix,         \* the last get_command_prefix call: origin and outcome
    bank,           \* one user's currency, raffle cooldown bucket and handlers
    schema          \* the database schema and the migration run against it

vars == <<config, rethinkdb, rdblog, redis, is_closed, extensions,
          rotator_task, tasks, presence, ready, ev, ws, link, prefix, bank, schema>>

readyVars == <<config, rethinkdb, rdblog, redis, is_closed, extensions,
               rotator_task, tasks, presence, ready>>

\* ---------------------------------------------------------------- on_ready
IdleReady ==
    [pc |-> "idle", run |-> 0, attempted |-> <<>>, failed |-> <<>>,
     hooks |-> {}, started |-> FALSE, logout |-> FALSE, log |-> {},
     old |-> "none", raised |-> FALSE, exc |-> "none", failing |-> {}]

NoEvent ==
    [kind |-> "none", before |-> "", after |-> "", pc |-> "returned",
     conn |-> "n/a", forwarded |-> FALSE, ignored |-> "unknown",
     dispatched |-> FALSE, handler |-> "none", sent |-> <<>>,
     error |-> "none", resolves |-> FALSE, log |-> {}, raised |-> FALSE]

NoPrefix == [origin |-> "n/a", raised |-> FALSE, kind |-> "none", value |-> <<>>]

NoLink ==
    [pc |-> "start", code |-> 0, attempts |-> <<>>, swallowed |-> {},
     closed |-> {}, exc |-> "none", signals |-> 0, signal |-> "none"]

\* ------------------------------------------------- currency: initial state
MaxInvocations == 3     \* raffle invocations of the one user
MaxDaily == 1           \* daily invocations of the same user that get to run
MaxTicks == 2           \* clock steps of half a cooldown window each

CooldownWindow == 3600  \* money/__init__.py:77 (expiration=3600)
RaffleLow == -600       \* money/__init__.py:68
RaffleHigh == 300       \* money/__init__.py:68
DailyLow == 40          \* money/__init__.py:32
DailyHigh == 60         \* money/__init__.py:32

Invocations == 1 .. MaxInvocations

DefaultMoney == 200     \* db/tables.py:28: the balance a user starts with

\* A raffle invocation that has not begun.
IdleRaffle ==
    [pc |-> "idle", delta |-> 0, branch |-> "none", reply |-> "none",
     changedAt |-> -1, after |-> 0]

\* balance: the stored currency; bucket: the time the "raffles" cooldown
\* bucket expires (0: none was set); now: the clock, in seconds.
NoBank ==
    [balance |-> DefaultMoney, bucket |-> 0, now |-> 0, dailies |-> 0,
     h |-> [i \in Invocations |-> IdleRaffle]]

\* ------------------------------------------------ migration: initial state
\* No revision reached yet: cols and uniques are the schema's columns and its
\* unique constraints, orig the schema revision afc57bd04606 started from.
EmptySchema == [cols |-> {}, uniques |-> {}]

NoMigration ==
    [pc |-> "none", cols |-> {}, uniques |-> {}, orig |-> EmptySchema,
     raised |-> "none"]

Init ==
    /\ config \in [autoload : AutoloadLists, game_rotation : RotationLists,
                   developer_mode : BOOLEAN]
    /\ rethinkdb = "none"
    /\ rdblog = "none"
    /\ redis = "none"
    /\ is_closed = FALSE
    /\ extensions = {}
    /\ rotator_task = 0
    /\ tasks = <<>>
    /\ presence = <<>>
    /\ ready = IdleReady
    /\ ev = NoEvent
    /\ ws = [id |-> 0, resume |-> FALSE]
    /\ link = NoLink
    /\ prefix = NoPrefix
    /\ bank = NoBank
    /\ schema = NoMigration

\* Entering on_ready: the identity lookup and the opening log lines
\* (bot.py:161-172); nothing of the model's state changes but the position.
OnReadyBegin ==
    /\ ready.pc = "idle"
    /\ ~is_closed
    /\ ready.run < MaxReady
    /\ ready' = [IdleReady EXCEPT !.pc = "rethink", !.run = ready.run + 1]
    /\ UNCHANGED <<config, rethinkdb, rdblog, redis, is_closed, extensions,
                   rotator_task, tasks, presence, ev, ws, link, prefix, bank, schema>>

\* A variant of ConnectFailed that logs and logs out but lacks the `return`:
\* on_ready carries on with the autoload loop.
ConnectFailedNoReturn(r, what) ==
    [ready |-> [r EXCEPT !.pc = "cogs", !.log = @ \cup {what}, !.logout = TRUE],
     is_closed |-> TRUE]

\* The except-branches of the two connect blocks (bot.py:179-183, 187-191):
\* log the failure, log the session out and return from on_ready.
ConnectFailed(r, what) ==
    [ready |-> [r EXCEPT !.pc = "idle", !.log = @ \cup {what}, !.logout = TRUE],
     is_closed |-> TRUE]

\* await self.rethinkdb.connect(...)  (bot.py:175); ok = FALSE is the
\* driver's ReqlDriverError.
ConnectRethink(ok) ==
    /\ ready.pc = "rethink"
    /\ IF ok
       THEN /\ rethinkdb' = "open"
            /\ ready' = [ready EXCEPT !.pc = "rdblog"]
            /\ UNCHANGED is_closed
       ELSE /\ ready' = ConnectFailed([ready EXCEPT !.exc = "ReqlDriverError"],
                                       "Unable to connect to RethinkDB!").ready
            /\ is_closed' = ConnectFailed(ready, "Unable to connect to RethinkDB!").is_closed
            /\ UNCHANGED rethinkdb
    /\ UNCHANGED <<config, rdblog, redis, extensions, rotator_task, tasks, presence, ev, ws, link, prefix, bank, schema>>

\* await self.rdblog.connect(db="joku_logs", ...)  (bot.py:176-178), inside
\* the same try block as the relational connect.
ConnectRdblog(ok) ==
    /\ ready.pc = "rdblog"
    /\ IF ok
       THEN /\ rdblog' = "open"
            /\ ready' = [ready EXCEPT !.pc = "redis"]
            /\ UNCHANGED is_closed
       ELSE /\ ready' = ConnectFailed([ready EXCEPT !.exc = "ReqlDriverError"],
                                       "Unable to connect to RethinkDB!").ready
            /\ is_closed' = ConnectFailed(ready, "Unable to connect to RethinkDB!").is_closed
            /\ UNCHANGED rdblog
    /\ UNCHANGED <<config, rethinkdb, redis, extensions, rotator_task, tasks, presence, ev, ws, link, prefix, bank, schema>>

\* await self.redis.connect(...)  (bot.py:185-191); ok = FALSE is
\* ConnectionRefusedError.
ConnectRedis(ok) ==
    /\ ready.pc = "redis"
    /\ IF ok
       THEN /\ redis' = "open"
            /\ ready' = [ready EXCEPT !.pc = "cogs"]
            /\ UNCHANGED is_closed
       ELSE /\ ready' = ConnectFailed([ready EXCEPT !.exc = "ConnectionRefusedError"],
                                       "Unable to connect to Redis!").ready
            /\ is_closed' = ConnectFailed(ready, "Unable to connect to Redis!").is_closed
            /\ UNCHANGED redis
    /\ UNCHANGED <<config, rethinkdb, rdblog, extensions, rotator_task, tasks, presence, ev, ws, link, prefix, bank, schema>>

\* A variant of LoadCogs with the try/except around the whole loop: the first
\* entry that raises ends the loop.
RECURSIVE LoadCogsAbort(_, _, _, _)
LoadCogsAbort(autoload, i, failing, acc) ==
    IF i > Len(autoload) THEN acc
    ELSE IF i \in failing
         THEN [acc EXCEPT !.attempted = Append(@, autoload[i]),
                          !.failed = Append(@, autoload[i])]
         ELSE LoadCogsAbort(autoload, i + 1, failing,
                            [acc EXCEPT !.attempted = Append(@, autoload[i]),
                                        !.extensions = @ \cup {autoload[i]}])

\* The autoload loop (bot.py:193-200) from entry i on: load_extension is
\* tried for every entry; the entries at the positions in `failing` raise,
\* which is logged, the others end up registered.
RECURSIVE LoadCogs(_, _, _, _)
LoadCogs(autoload, i, failing, acc) ==
    IF i > Len(autoload) THEN acc
    ELSE IF i \in failing
         THEN LoadCogs(autoload, i + 1, failing,
                       [acc EXCEPT !.attempted = Append(@, autoload[i]),
                                   !.failed = Append(@, autoload[i])])
         ELSE LoadCogs(autoload, i + 1, failing,
                       [acc EXCEPT !.attempted = Append(@, autoload[i]),
                                   !.extensions = @ \cup {autoload[i]}])

\* ----------------------------------------------------------- rotator tasks
TaskDone(t) == t.st \in {"finished", "failed", "cancelled"}

\* k: presence updates issued; naps: sleeps completed; slept: their total.
NewTask == [st |-> "new", cancel |-> FALSE, k |-> 0, naps |-> 0, slept |-> 0]

\* Task.cancel(): a request; a finished task ignores it, a pending one is
\* cancelled the next time the loop runs it.
Cancel(t) == IF TaskDone(t) THEN t ELSE [t EXCEPT !.cancel = TRUE]

\* Task.result(): the value, the task's exception, CancelledError, or
\* InvalidStateError for a task that is not done.
Result(t) ==
    CASE t.st = "finished"  -> "value"
      [] t.st = "failed"    -> "exception"
      [] t.st = "cancelled" -> "CancelledError"
      [] OTHER              -> "InvalidStateError"

\* A variant of RetireOld without the try/except around result(): what
\* result() raises leaves on_ready.
RetireOldUncaught(ts, cur) ==
    IF cur = 0
    THEN [tasks |-> ts, old |-> "none", logged |-> FALSE, raised |-> FALSE]
    ELSE [tasks  |-> [ts EXCEPT ![cur] = Cancel(@)],
          old    |-> ts[cur].st,
          logged |-> FALSE,
          raised |-> Result(Cancel(ts[cur])) # "value"]

\* bot.py:209-214: cancel the previous rotator task and fetch its result;
\* whatever result() raises is caught by `except Exception` and logged.
RetireOld(ts, cur) ==
    IF cur = 0
    THEN [tasks |-> ts, old |-> "none", logged |-> FALSE, raised |-> FALSE]
    ELSE [tasks  |-> [ts EXCEPT ![cur] = Cancel(@)],
          old    |-> ts[cur].st,
          logged |-> Result(Cancel(ts[cur])) # "value",
          raised |-> FALSE]

\* The synchronous tail of on_ready (bot.py:193-220): the autoload loop, the
\* ready hooks, the retirement of the old rotator task, the new rotator task.
FinishReady(failing) ==
    /\ ready.pc = "cogs"
    /\ LET loaded == LoadCogs(config.autoload, 1, failing,
                              [extensions |-> extensions, attempted |-> <<>>,
                               failed |-> <<>>])
           retired == RetireOld(tasks, rotator_task)
           logs == (IF loaded.failed # <<>> THEN {"Failed to load cog"} ELSE {})
                   \cup (IF retired.logged THEN {"old rotator exception"} ELSE {})
       IN /\ extensions' = loaded.extensions
          /\ IF retired.raised
             THEN /\ tasks' = retired.tasks
                  /\ UNCHANGED rotator_task
             ELSE /\ tasks' = Append(retired.tasks, NewTask)
                  /\ rotator_task' = Len(tasks) + 1
          /\ ready' = [ready EXCEPT !.pc = "idle",
                                    !.failing = failing,
                                    !.attempted = loaded.attempted,
                                    !.failed = loaded.failed,
                                    !.hooks = loaded.extensions \cap ReadyHookCogs,
                                    !.old = retired.old,
                                    !.log = @ \cup logs,
                                    !.raised = retired.raised,
                                    !.started = ~retired.raised]
    /\ UNCHANGED <<config, rethinkdb, rdblog, redis, is_closed, presence, ev, ws, link, prefix, bank, schema>>

\* rotate_game_text (bot.py:116-121), one step per await.  A task that was
\* never run and is cancelled never enters the coroutine; itertools.cycle of
\* an empty list ends the loop at once.
Rotation == config.game_rotation

\* A variant of NextGame that stays on the last entry instead of wrapping.
NextGameNoWrap(rot, k) == rot[IF k + 1 > Len(rot) THEN Len(rot) ELSE k + 1]

\* itertools.cycle(rot) (bot.py:117): the entry that follows k entries.
NextGame(rot, k) == rot[(k % Len(rot)) + 1]

\* A variant of RotatorStart that reads the first entry before looping: an
\* empty list ends the task with an IndexError.
RotatorStartIndexError(t) ==
    /\ tasks[t].st = "new" /\ ~tasks[t].cancel
    /\ IF Rotation = <<>>
       THEN /\ tasks' = [tasks EXCEPT ![t].st = "failed"]
            /\ UNCHANGED presence
       ELSE /\ tasks' = [tasks EXCEPT ![t].st = "presence", ![t].k = 1]
            /\ presence' = Append(presence, <<t, NextGame(Rotation, 0)>>)
    /\ UNCHANGED <<config, rethinkdb, rdblog, redis, is_closed, extensions,
                   rotator_task, ready, ev, ws, link, prefix, bank, schema>>

RotatorStart(t) ==
    /\ tasks[t].st = "new" /\ ~tasks[t].cancel
    /\ IF Rotation = <<>>
       THEN /\ tasks' = [tasks EXCEPT ![t].st = "finished"]
            /\ UNCHANGED presence
       ELSE /\ tasks' = [tasks EXCEPT ![t].st = "presence", ![t].k = 1]
            /\ presence' = Append(presence, <<t, NextGame(Rotation, 0)>>)
    /\ UNCHANGED <<config, rethinkdb, rdblog, redis, is_closed, extensions,
                   rotator_task, ready, ev, ws, link, prefix, bank, schema>>

\* await self.change_presence(...) returns, or raises and ends the task.
PresenceDone(t, ok) ==
    /\ tasks[t].st = "presence" /\ ~tasks[t].cancel
    /\ tasks' = [tasks EXCEPT ![t].st = IF ok THEN "sleep" ELSE "failed"]
    /\ UNCHANGED <<config, rethinkdb, rdblog, redis, is_closed, extensions,
                   rotator_task, presence, ready, ev, ws, link, prefix, bank, schema>>

\* await asyncio.sleep(15) returns: the next entry of the cycle is sent.
SleepDone(t) ==
    /\ tasks[t].st = "sleep" /\ ~tasks[t].cancel
    /\ tasks[t].k < MaxUpdates
    /\ tasks' = [tasks EXCEPT ![t].st = "presence", ![t].k = @ + 1,
                             ![t].naps = @ + 1, ![t].slept = @ + SleepInterval]
    /\ presence' = Append(presence, <<t, NextGame(Rotation, tasks[t].k)>>)
    /\ UNCHANGED <<config, rethinkdb, rdblog, redis, is_closed, extensions,
                   rotator_task, ready, ev, ws, link, prefix, bank, schema>>

\* The loop runs a task whose cancellation was requested: CancelledError is
\* thrown into its pending await and the task ends cancelled.
RotatorCancelled(t) ==
    /\ ~TaskDone(tasks[t]) /\ tasks[t].cancel
    /\ tasks' = [tasks EXCEPT ![t].st = "cancelled"]
    /\ UNCHANGED <<config, rethinkdb, rdblog, redis, is_closed, extensions,
                   rotator_task, presence, ready, ev, ws, link, prefix, bank, schema>>

ReadyNext ==
    \/ OnReadyBegin
    \/ \E ok \in BOOLEAN : ConnectRethink(ok)
    \/ \E ok \in BOOLEAN : ConnectRdblog(ok)
    \/ \E ok \in BOOLEAN : ConnectRedis(ok)
    \/ \E failing \in SUBSET (1..Len(config.autoload)) : FinishReady(failing)

RotatorNext ==
    \E t \in DOMAIN tasks :
        \/ RotatorStart(t)
        \/ \E ok \in BOOLEAN : PresenceDone(t, ok)
        \/ SleepDone(t)
        \/ RotatorCancelled(t)

SpecReady == Init /\ [][ReadyNext \/ RotatorNext]_vars

\* ----------------------------------------------------------- message intake
Texts == {"a", "b"}

ErrorKinds ==
    {"CommandInvokeError", "CheckFailure", "MissingRequiredArgument",
     "CommandOnCooldown", "CommandNotFound", "BadArgument"}

Msg(to, text) == [to |-> to, text |-> text]

\* on_message up to its first await (bot.py:222-235): the log lines, then
\* `if self.rethinkdb.connection is None: return`, else the ignore query.
EnterOnMessage(e, conn) ==
    IF conn = "none"
    THEN [e EXCEPT !.conn = conn, !.forwarded = TRUE, !.pc = "returned"]
    ELSE [e EXCEPT !.conn = conn, !.forwarded = TRUE, !.pc = "gate"]

\* A message-received event.
OnMessage(text) ==
    /\ ev.pc = "returned" /\ ~is_closed
    /\ ev' = EnterOnMessage([NoEvent EXCEPT !.kind = "message", !.before = text,
                                            !.after = text], rethinkdb)
    /\ UNCHANGED <<readyVars, ws, link, prefix, bank, schema>>

\* on_message_edit (bot.py:240-244): whether on_message is called.  The
\* comparison guards a `pass`; the call follows in either case.
EditForwarded(before, after) == IF before = after THEN TRUE ELSE TRUE

\* A message-edit event.
OnMessageEdit(before, after) ==
    /\ ev.pc = "returned" /\ ~is_closed
    /\ LET e == [NoEvent EXCEPT !.kind = "edit", !.before = before, !.after = after]
       IN ev' = IF EditForwarded(before, after)
                THEN EnterOnMessage(e, rethinkdb)
                ELSE e
    /\ UNCHANGED <<readyVars, ws, link, prefix, bank, schema>>

\* A variant of AfterGate that ignores the adapter's answer.
AfterGateAlwaysDispatch(e, ignored, matched) ==
    [e EXCEPT !.ignored = IF ignored THEN "yes" ELSE "no",
              !.dispatched = TRUE,
              !.handler = IF matched THEN "invoking" ELSE "none",
              !.pc = IF matched THEN "invoke" ELSE "returned"]

\* bot.py:235-238: the answer of is_channel_ignored(channel, "commands");
\* an ignored channel returns, any other goes to Bot.on_message, which
\* invokes the command the message matches, if any.
AfterGate(e, ignored, matched) ==
    IF ignored
    THEN [e EXCEPT !.ignored = "yes", !.pc = "returned"]
    ELSE [e EXCEPT !.ignored = "no",
                   !.dispatched = TRUE,
                   !.handler = IF matched THEN "invoking" ELSE "none",
                   !.pc = IF matched THEN "invoke" ELSE "returned"]

GateAnswers(ignored, matched) ==
    /\ ev.pc = "gate"
    /\ ev' = AfterGate(ev, ignored, matched)
    /\ UNCHANGED <<readyVars, ws, link, prefix, bank, schema>>

\* The invoked command ends normally, with or without a reply of its own.
CommandReturns(reply) ==
    /\ ev.pc = "invoke"
    /\ ev' = [ev EXCEPT !.pc = "returned", !.handler = "returned",
                        !.sent = IF reply THEN Append(@, Msg("invoking", "reply")) ELSE @]
    /\ UNCHANGED <<readyVars, ws, link, prefix, bank, schema>>

\* The categories the isinstance chain of bot.py:150-159 answers.
RepliedKinds == {"CheckFailure", "MissingRequiredArgument", "CommandOnCooldown"}

\* A variant of OnCommandError that answers every category with a reply.
OnCommandErrorReplyAll(e, kind, resolves, ok1, ok2) ==
    LET e0 == [e EXCEPT !.error = kind]
    IN IF ok1
       THEN [e0 EXCEPT !.sent = Append(@, Msg("invoking", kind))]
       ELSE [e0 EXCEPT !.raised = TRUE]

\* on_command_error (bot.py:123-159) for an error of category `kind`.
\* resolves: manager.get_channel finds the configured error channel;
\* ok1, ok2: the first / second send completes (FALSE: it raises, and so does
\* on_command_error).  The report of a handler-internal error is sent with
\* context.channel.send, the channel the command was invoked in.
OnCommandError(e, kind, resolves, ok1, ok2) ==
    LET e0 == [e EXCEPT !.error = kind]
    IN IF kind = "CommandInvokeError"
       THEN IF ~ok1 THEN [e0 EXCEPT !.raised = TRUE]
            ELSE LET e1 == [e0 EXCEPT !.sent = Append(@, Msg("invoking", "apology")),
                                      !.log = @ \cup {"traceback"},
                                      !.resolves = resolves]
                 IN IF ~resolves
                    THEN [e1 EXCEPT !.log = @ \cup {"Could not find error channel!"}]
                    ELSE IF ok2
                         THEN [e1 EXCEPT !.sent = Append(@, Msg("invoking", "traceback"))]
                         ELSE [e1 EXCEPT !.raised = TRUE]
       ELSE IF kind \in RepliedKinds
            THEN IF ok1
                 THEN [e0 EXCEPT !.sent = Append(@, Msg("invoking", kind))]
                 ELSE [e0 EXCEPT !.raised = TRUE]
            ELSE e0

\* The invoked command fails and the framework calls on_command_error.
CommandFails(kind, resolves, ok1, ok2) ==
    /\ ev.pc = "invoke"
    /\ ev' = OnCommandError([ev EXCEPT !.pc = "returned", !.handler = "raised"],
                            kind, resolves, ok1, ok2)
    /\ UNCHANGED <<readyVars, ws, link, prefix, bank, schema>>

IntakeNext ==
    \/ \E text \in Texts : OnMessage(text)
    \/ \E before, after \in Texts : OnMessageEdit(before, after)
    \/ \E ignored, matched \in BOOLEAN : GateAnswers(ignored, matched)
    \/ \E reply \in BOOLEAN : CommandReturns(reply)
    \/ \E kind \in ErrorKinds, resolves, ok1, ok2 \in BOOLEAN :
           CommandFails(kind, resolves, ok1, ok2)

SpecIntake == Init /\ [][ReadyNext \/ IntakeNext]_vars

\* ----------------------------------------------------------- command prefix
DesignatedGuild == "110373943822540800"     \* bot.py:111 (the id, as text)

\* message.guild of the message: "none" for a direct message, else the id.
Origins == {"none", DesignatedGuild, "110373943822540801", "81384788765712384"}

DefaultSuffixes == <<"!", "?", "^", "&", "$", "}", "#", "~", ":">>   \* bot.py:114
AlternateSuffixes == <<"?", "^", "&", "$", "}", "#", "~", ":">>      \* bot.py:113

\* ["j" + s for s in suffixes]
Prefixed(suffixes) == [i \in DOMAIN suffixes |-> "j" \o suffixes[i]]

\* A variant of get_command_prefix that looks at the guild before the
\* developer_mode flag.
GetCommandPrefixGuildFirst(developer_mode, guild) ==
    IF guild = "none"
    THEN [raised |-> TRUE, kind |-> "AttributeError", value |-> <<>>]
    ELSE IF guild = DesignatedGuild
    THEN [raised |-> FALSE, kind |-> "list", value |-> Prefixed(AlternateSuffixes)]
    ELSE IF developer_mode
    THEN [raised |-> FALSE, kind |-> "str", value |-> <<"jd!">>]
    ELSE [raised |-> FALSE, kind |-> "list", value |-> Prefixed(DefaultSuffixes)]

\* A variant of get_command_prefix with the two lists swapped.
GetCommandPrefixSwapped(developer_mode, guild) ==
    IF developer_mode
    THEN [raised |-> FALSE, kind |-> "str", value |-> <<"jd!">>]
    ELSE IF guild = "none"
    THEN [raised |-> TRUE, kind |-> "AttributeError", value |-> <<>>]
    ELSE IF guild = DesignatedGuild
    THEN [raised |-> FALSE, kind |-> "list", value |-> Prefixed(DefaultSuffixes)]
    ELSE [raised |-> FALSE, kind |-> "list", value |-> Prefixed(AlternateSuffixes)]

\* get_command_prefix (bot.py:105-114).  kind "str" is the bare string
\* "jd!", held as a one-entry sequence.  With developer_mode off the code
\* reads message.guild.id, which raises AttributeError when message.guild is
\* None.
GetCommandPrefix(developer_mode, guild) ==
    IF developer_mode
    THEN [raised |-> FALSE, kind |-> "str", value |-> <<"jd!">>]
    ELSE IF guild = "none"
    THEN [raised |-> TRUE, kind |-> "AttributeError", value |-> <<>>]
    ELSE IF guild = DesignatedGuild
    THEN [raised |-> FALSE, kind |-> "list", value |-> Prefixed(AlternateSuffixes)]
    ELSE [raised |-> FALSE, kind |-> "list", value |-> Prefixed(DefaultSuffixes)]

\* The framework asks for the prefixes of a message from `origin`.
ResolvePrefix(origin) ==
    /\ ~is_closed
    /\ LET r == GetCommandPrefix(config.developer_mode, origin)
       IN prefix' = [origin |-> origin, raised |-> r.raised, kind |-> r.kind,
                     value |-> r.value]
    /\ UNCHANGED <<readyVars, ev, ws, link, bank, schema>>

PrefixNext == \E origin \in Origins : ResolvePrefix(origin)

SpecPrefix == Init /\ [][PrefixNext]_vars

\* ----------------------------------------------------------- reconnect loop
\* connection.close() on an adapter: a missing connection (None) raises
\* AttributeError, an existing one is closed or raises.
CloseConn(conn, ok) ==
    IF conn = "none" THEN [conn |-> conn, raised |-> TRUE]
    ELSE IF ok THEN [conn |-> "closed", raised |-> FALSE]
    ELSE [conn |-> conn, raised |-> TRUE]

\* The `while not self.is_closed` test (bot.py:257).
LoopTest(closed) == IF closed THEN "returned" ELSE "polling"

\* A variant of OnConnectionClosed with both closes in one try block: a
\* failure of the first close skips the second.
OnConnectionClosedOneTry(code, rconn, lconn, rOk, lOk) ==
    LET r == CloseConn(rconn, rOk)
        l == IF r.raised THEN [conn |-> lconn, raised |-> FALSE] ELSE CloseConn(lconn, lOk)
    IN [is_closed |-> TRUE, rethinkdb |-> r.conn, rdblog |-> l.conn,
        attempts |-> IF r.raised THEN <<"rethinkdb">> ELSE <<"rethinkdb", "rdblog">>,
        swallowed |-> (IF r.raised THEN {"rethinkdb"} ELSE {})
                      \cup (IF l.raised THEN {"rdblog"} ELSE {}),
        closed |-> (IF r.conn = "closed" THEN {"rethinkdb"} ELSE {})
                   \cup (IF l.conn = "closed" THEN {"rdblog"} ELSE {}),
        exc |-> IF code # NormalClosure THEN "ConnectionClosed" ELSE "none",
        pc |-> IF code # NormalClosure THEN "raised" ELSE LoopTest(TRUE)]

\* A variant of OnConnectionClosed without the final `raise`.
OnConnectionClosedNoRaise(code, rconn, lconn, rOk, lOk) ==
    LET r == CloseConn(rconn, rOk)
        l == CloseConn(lconn, lOk)
    IN [is_closed |-> TRUE, rethinkdb |-> r.conn, rdblog |-> l.conn,
        attempts |-> <<"rethinkdb", "rdblog">>,
        swallowed |-> (IF r.raised THEN {"rethinkdb"} ELSE {})
                      \cup (IF l.raised THEN {"rdblog"} ELSE {}),
        closed |-> (IF r.conn = "closed" THEN {"rethinkdb"} ELSE {})
                   \cup (IF l.conn = "closed" THEN {"rdblog"} ELSE {}),
        exc |-> "none",
        pc |-> LoopTest(TRUE)]

\* The `except discord.ConnectionClosed` branch (bot.py:264-276): close the
\* session, try to close each persistence connection inside a try/except of
\* its own, re-raise the close error unless its code is 1000; after a normal
\* closure the loop test runs next and finds the session closed.
OnConnectionClosed(code, rconn, lconn, rOk, lOk) ==
    LET r == CloseConn(rconn, rOk)
        l == CloseConn(lconn, lOk)
    IN [is_closed |-> TRUE, rethinkdb |-> r.conn, rdblog |-> l.conn,
        attempts |-> <<"rethinkdb", "rdblog">>,
        swallowed |-> (IF r.raised THEN {"rethinkdb"} ELSE {})
                      \cup (IF l.raised THEN {"rdblog"} ELSE {}),
        closed |-> (IF r.conn = "closed" THEN {"rethinkdb"} ELSE {})
                   \cup (IF l.conn = "closed" THEN {"rdblog"} ELSE {}),
        exc |-> IF code # NormalClosure THEN "ConnectionClosed" ELSE "none",
        pc |-> IF code # NormalClosure THEN "raised" ELSE LoopTest(TRUE)]

\* connect() up to the loop (bot.py:254-257): the first transport handle.
ConnectBegin ==
    /\ link.pc = "start"
    /\ ws' = [id |-> 1, resume |-> FALSE]
    /\ link' = [link EXCEPT !.pc = LoopTest(is_closed)]
    /\ UNCHANGED <<readyVars, ev, prefix, bank, schema>>

\* poll_event returns after an ordinary event; the loop test runs again.
PollEvent ==
    /\ link.pc = "polling"
    /\ link' = [link EXCEPT !.pc = LoopTest(is_closed)]
    /\ UNCHANGED <<readyVars, ev, ws, prefix, bank, schema>>

Signals == {"ReconnectWebSocket", "ResumeWebSocket"}

\* A variant of NewHandle that drops the resume flag.
NewHandleNoResume(old, sig) == [id |-> old.id + 1, resume |-> FALSE]

\* bot.py:261-263: resume = type(e) is ResumeWebSocket, and the handle made
\* by DiscordWebSocket.from_client(self, resume=resume).
NewHandle(old, sig) == [id |-> old.id + 1, resume |-> (sig = "ResumeWebSocket")]

\* poll_event raises ReconnectWebSocket or ResumeWebSocket: a new handle
\* replaces self.ws and the loop goes on (bot.py:260-263).
PollSignal(sig) ==
    /\ link.pc = "polling"
    /\ ws.id < MaxHandles
    /\ ws' = NewHandle(ws, sig)
    /\ link' = [link EXCEPT !.pc = LoopTest(is_closed), !.signals = @ + 1,
                            !.signal = sig]
    /\ UNCHANGED <<readyVars, ev, prefix, bank, schema>>

\* poll_event raises ConnectionClosed with close code `code`.
PollClosed(code, rOk, lOk) ==
    /\ link.pc = "polling"
    /\ LET h == OnConnectionClosed(code, rethinkdb, rdblog, rOk, lOk)
       IN /\ is_closed' = h.is_closed
          /\ rethinkdb' = h.rethinkdb
          /\ rdblog' = h.rdblog
          /\ link' = [link EXCEPT !.pc = h.pc, !.code = code, !.attempts = h.attempts,
                                  !.swallowed = h.swallowed, !.closed = h.closed,
                                  !.exc = h.exc]
    /\ UNCHANGED <<config, redis, extensions, rotator_task, tasks, presence,
                   ready, ev, ws, prefix, bank, schema>>

LinkNext ==
    \/ ConnectBegin
    \/ PollEvent
    \/ \E sig \in Signals : PollSignal(sig)
    \/ \E code \in CloseCodes, rOk, lOk \in BOOLEAN : PollClosed(code, rOk, lOk)

SpecConnect == Init /\ [][ReadyNext \/ LinkNext]_vars

\* ------------------------------------------------------------- currency
\* The cog's commands for one user (money/__init__.py:26-77).  Each raffle
\* invocation is a coroutine; an action is the run of one coroutine from one
\* await to the next, together with the adapter call it was suspended in.
Abs(x) == IF x < 0 THEN -x ELSE x

\* self.rng.randint(0, 10) (money/__init__.py:54).
Choices == 0 .. 10

\* self.rng.randint(-600, 300) (money/__init__.py:68): the two ends.
Amounts == {RaffleLow, RaffleHigh}

\* self.rng.randint(40, 60) (money/__init__.py:32): the two ends.
DailyAmounts == {DailyLow, DailyHigh}

\* redis.get_cooldown_expiration: the seconds left of the bucket, or 0 for
\* None when no bucket is set or the one set has expired.
GetCooldownExpiration(bucket, now) ==
    IF bucket > now THEN bucket - now ELSE 0

\* rethinkdb.update_user_currency: the store adds the delta in one step.
UpdateUserCurrency(balance, delta) == balance + delta

\* money/__init__.py:44-50: the cooldown test that opens raffle.
RaffleBegin(p) ==
    /\ bank.h[p].pc = "idle"
    /\ IF p = 1 THEN TRUE ELSE bank.h[p - 1].pc # "idle"
    /\ LET ttl == GetCooldownExpiration(bank.bucket, bank.now)
       IN bank' = IF ttl # 0
                  THEN [bank EXCEPT !.h[p].pc = "done",
                                    !.h[p].branch = "rejected",
                                    !.h[p].reply = "already bought"]
                  ELSE [bank EXCEPT !.h[p].pc = "reading"]
    /\ UNCHANGED <<readyVars, ev, ws, link, prefix, schema>>

\* money/__init__.py:52-68: get_user_currency answers, and the handler runs
\* up to its next await: the debt collector's message (update still to
\* come), the addiction notice (and return), or the update of the draw.
RaffleRead(p, choice, amount) ==
    /\ bank.h[p].pc = "reading"
    /\ LET currency == bank.balance
       IN bank' =
            IF currency <= 0
            THEN IF choice < 5
                 THEN [bank EXCEPT !.h[p].pc = "debt_update",
                                   !.h[p].branch = "debt",
                                   !.h[p].reply = "debt free",
                                   !.h[p].delta = Abs(currency) + 2]
                 ELSE [bank EXCEPT !.h[p].pc = "done",
                                   !.h[p].branch = "addiction",
                                   !.h[p].reply = "addiction"]
            ELSE [bank EXCEPT !.h[p].pc = "updating",
                              !.h[p].branch = "normal",
                              !.h[p].delta = amount]
    /\ UNCHANGED <<readyVars, ev, ws, link, prefix, schema>>

\* money/__init__.py:57-58: the debt collector's update, then return True.
DebtUpdate(p) ==
    /\ bank.h[p].pc = "debt_update"
    /\ LET b == UpdateUserCurrency(bank.balance, bank.h[p].delta)
       IN bank' = [bank EXCEPT !.balance = b,
                               !.h[p].pc = "done",
                               !.h[p].after = b,
                               !.h[p].changedAt = bank.now]
    /\ UNCHANGED <<readyVars, ev, ws, link, prefix, schema>>

\* money/__init__.py:70-76: the update of the draw, then the result message.
RaffleUpdate(p) ==
    /\ bank.h[p].pc = "updating"
    /\ LET b == UpdateUserCurrency(bank.balance, bank.h[p].delta)
       IN bank' = [bank EXCEPT !.balance = b,
                               !.h[p].pc = "sending",
                               !.h[p].reply = "result",
                               !.h[p].changedAt =
                                   IF b # bank.balance THEN bank.now ELSE @]
    /\ UNCHANGED <<readyVars, ev, ws, link, prefix, schema>>

\* money/__init__.py:77: the cooldown bucket is set, last of all.
RaffleSetBucket(p) ==
    /\ bank.h[p].pc = "sending"
    /\ bank' = [bank EXCEPT !.bucket = bank.now + CooldownWindow,
                            !.h[p].pc = "done"]
    /\ UNCHANGED <<readyVars, ev, ws, link, prefix, schema>>

\* money/__init__.py:32-35: daily, when its cooldown decorator lets it run.
Daily(amount) ==
    /\ bank.dailies < MaxDaily
    /\ bank' = [bank EXCEPT !.balance = UpdateUserCurrency(@, amount),
                            !.dailies = @ + 1]
    /\ UNCHANGED <<readyVars, ev, ws, link, prefix, schema>>

\* Half a cooldown window passes.
Tick ==
    /\ bank.now < MaxTicks * (CooldownWindow \div 2)
    /\ bank' = [bank EXCEPT !.now = @ + (CooldownWindow \div 2)]
    /\ UNCHANGED <<readyVars, ev, ws, link, prefix, schema>>

MoneyNext ==
    \/ \E p \in Invocations : RaffleBegin(p)
    \/ \E p \in Invocations, choice \in Choices, amount \in Amounts :
           RaffleRead(p, choice, amount)
    \/ \E p \in Invocations : DebtUpdate(p)
    \/ \E p \in Invocations : RaffleUpdate(p)
    \/ \E p \in Invocations : RaffleSetBucket(p)
    \/ \E amount \in DailyAmounts : Daily(amount)
    \/ Tick

\* The cog reads nothing of the configuration: one configuration is enough.
MoneyInit ==
    /\ Init
    /\ config = [autoload |-> <<>>, game_rotation |-> <<>>, developer_mode |-> FALSE]

SpecMoney == MoneyInit /\ [][MoneyNext]_vars

\* ------------------------------------------------------------ migration
\* Revision afc57bd04606 (afc57bd04606_add_some_stock_stuff.py).  A column is
\* <<table, column>>; a unique constraint is [table, cols, name].
BaseColumns ==
    {<<"guild", "id">>, <<"stock", "channel_id">>, <<"user__stock", "id">>}

\* What a database at the down revision 580385482580 may hold besides.
OptionalColumns == {<<"guild", "roleme_roles">>}
OptionalUniques == {[table |-> "user__stock", cols |-> <<"id">>, name |-> "user__stock_id_key"]}

BaseSchemas ==
    {[cols |-> BaseColumns \cup c, uniques |-> u] :
        c \in SUBSET OptionalColumns, u \in SUBSET OptionalUniques}

\* The name the database gives a unique constraint created without one.
AutoName(table, cols) == table \o "_" \o cols[1] \o "_key"

\* op.add_column, and the ALTER TABLE ... ADD COLUMN of the raw SQL.
AddColumn(s, table, column) ==
    [s EXCEPT !.cols = @ \cup {<<table, column>>}]

\* op.create_unique_constraint(name, table, cols); name "None" is None.
CreateUniqueConstraint(s, name, table, cols) ==
    [s EXCEPT !.uniques = @ \cup
        {[table |-> table, cols |-> cols,
          name |-> IF name = "None" THEN AutoName(table, cols) ELSE name]}]

\* op.drop_column(table, column).
DropColumn(s, table, column) ==
    IF s.raised # "none" THEN s
    ELSE [s EXCEPT !.cols = @ \ {<<table, column>>}]

\* op.drop_constraint(name, table, type_='unique'): the DROP CONSTRAINT
\* statement cannot be written for a constraint without a name.
DropConstraint(s, name, table) ==
    IF s.raised # "none" THEN s
    ELSE IF name = "None" THEN [s EXCEPT !.raised = "CompileError"]
    ELSE [s EXCEPT !.uniques = {u \in @ : ~(u.table = table /\ u.name = name)}]

\* upgrade() (lines 19-31).
Upgrade(s) ==
    LET s1 == AddColumn(s, "guild", "stock_announcement_id")
        s2 == CreateUniqueConstraint(s1, "None", "stock", <<"channel_id">>)
        s3 == AddColumn(s2, "user__stock", "crashed")
    IN AddColumn(s3, "user__stock", "crashed_at")

\* downgrade() (lines 34-40); a statement after one that raised does not run.
Downgrade(s) ==
    LET s1 == DropColumn(s, "user__stock", "crashed_at")
        s2 == DropColumn(s1, "user__stock", "crashed")
        s3 == DropConstraint(s2, "None", "stock")
    IN DropColumn(s3, "guild", "stock_announcement_id")

\* The database stands at the down revision, with one of the base schemas.
AtDownRevision(base) ==
    /\ schema.pc = "none"
    /\ schema' = [pc |-> "base", cols |-> base.cols, uniques |-> base.uniques,
                  orig |-> base, raised |-> "none"]
    /\ UNCHANGED <<readyVars, ev, ws, link, prefix, bank>>

\* upgrade() applies where none of what it adds is there yet.
RunUpgrade ==
    /\ schema.pc = "base"
    /\ <<"guild", "stock_announcement_id">> \notin schema.cols
    /\ schema' = [Upgrade(schema) EXCEPT !.pc = "upgraded"]
    /\ UNCHANGED <<readyVars, ev, ws, link, prefix, bank>>

\* downgrade() after upgrade().  When it raises, the statements already run
\* are rolled back where the migration runs in a transaction (rollback) and
\* stay where it does not.
RunDowngrade(rollback) ==
    /\ schema.pc = "upgraded"
    /\ LET d == Downgrade(schema)
       IN schema' = IF d.raised # "none" /\ rollback
                    THEN [schema EXCEPT !.pc = "downgraded", !.raised = d.raised]
                    ELSE [d EXCEPT !.pc = "downgraded"]
    /\ UNCHANGED <<readyVars, ev, ws, link, prefix, bank>>

MigrateNext ==
    \/ \E base \in BaseSchemas : AtDownRevision(base)
    \/ RunUpgrade
    \/ \E rollback \in BOOLEAN : RunDowngrade(rollback)

SpecMigrate == Init /\ [][MigrateNext]_vars

\* The whole bot.  SpecReady, SpecIntake, SpecConnect, SpecPrefix, SpecMoney
\* and SpecMigrate restrict it to the handlers each group of properties
\* reads; on_ready is part of the first three, being what opens the
\* connections the other handlers depend on.
Next ==
    ReadyNext \/ RotatorNext \/ IntakeNext \/ LinkNext \/ PrefixNext \/ MoneyNext
    \/ MigrateNext

Spec == Init /\ [][Next]_vars

\* ------------------------------------------------------- intake properties
SentTo(e, to) == {i \in DOMAIN e.sent : e.sent[i].to = to}

\* C1: a message or edit whose channel the adapter reports as ignoring
\* commands never reaches command dispatch: no command is invoked, no error
\* is translated and nothing is sent for it.
C1_IgnoredNeverDispatched ==
    ev.ignored = "yes" =>
        /\ ~ev.dispatched /\ ev.handler = "none" /\ ev.error = "none"
        /\ ev.sent = <<>> /\ ev.pc = "returned"

\* An edit with changed text, on an ignored channel, with the connection up.
C1_Witness ==
    /\ ev.kind = "edit" /\ ev.before # ev.after /\ ev.conn = "open"
    /\ ev.ignored = "yes" /\ ev.pc = "returned"

C1_WitnessMessage == ev.kind = "message" /\ ev.conn = "open" /\ ev.ignored = "yes"

\* C2: a message that arrives while the relational connection is not yet
\* established is treated as not ignored and is passed on to dispatch.
C2_FailsOpen ==
    (ev.forwarded /\ ev.conn = "none" /\ ev.pc = "returned") => ev.dispatched

\* C3: an edit is forwarded to on_message exactly when its text changed; an
\* unchanged edit causes no gate check, no dispatch and no reply.
C3_EditForwardedIffChanged ==
    ev.kind = "edit" =>
        /\ ev.forwarded <=> (ev.before # ev.after)
        /\ (ev.before = ev.after =>
               ev.ignored = "unknown" /\ ~ev.dispatched /\ ev.sent = <<>>)

\* C9: on a handler-internal error exactly one message, the apology, goes
\* to the invoking channel, whether or not the error channel resolves.
C9_OneMessageOnInvokeError ==
    (ev.error = "CommandInvokeError" /\ ~ev.raised) =>
        /\ Cardinality(SentTo(ev, "invoking")) = 1
        /\ ev.sent[1] = Msg("invoking", "apology")

\* C10: on a handler-internal error the traceback goes to the configured
\* error channel, not the invoking one, when that channel resolves; when it
\* does not, "Could not find error channel!" is logged and nothing is relayed.
C10_TracebackToErrorChannel ==
    (ev.error = "CommandInvokeError" /\ ~ev.raised) =>
        IF ev.resolves
        THEN /\ \E i \in DOMAIN ev.sent : ev.sent[i] = Msg("error", "traceback")
             /\ \A i \in DOMAIN ev.sent : ev.sent[i] # Msg("invoking", "traceback")
        ELSE /\ "Could not find error channel!" \in ev.log
             /\ \A i \in DOMAIN ev.sent : ev.sent[i].text # "traceback"

\* ---------------------------------------------------- reconnect properties
\* C7: after a close signal with code 1000 a close was attempted on the
\* relational and then on the document-log connection, whichever of them
\* failed, and connect() has left the loop and returned without an error.
C7_NormalClosureReturns ==
    link.code = NormalClosure =>
        /\ link.attempts = <<"rethinkdb", "rdblog">>
        /\ link.pc = "returned" /\ link.exc = "none" /\ is_closed
        /\ link.swallowed \cup link.closed = {"rethinkdb", "rdblog"}

\* Code 1000, the relational close failed, the document-log one succeeded.
C7_Witness ==
    /\ link.code = NormalClosure /\ link.pc = "returned"
    /\ link.swallowed = {"rethinkdb"} /\ link.closed = {"rdblog"}
    /\ rethinkdb = "open" /\ rdblog = "closed"

\* C8: after a close signal with any other code the same two closes were
\* attempted and connect() ends by raising the close error itself.
C8_AbnormalClosureRaises ==
    (link.code # 0 /\ link.code # NormalClosure) =>
        /\ link.attempts = <<"rethinkdb", "rdblog">>
        /\ link.pc = "raised" /\ link.exc = "ConnectionClosed" /\ is_closed
        /\ link.swallowed \cup link.closed = {"rethinkdb", "rdblog"}

\* Code 4004 with both closes failing on open connections.
C8_Witness ==
    /\ link.code = 4004 /\ link.pc = "raised"
    /\ link.swallowed = {"rethinkdb", "rdblog"} /\ rethinkdb = "open" /\ rdblog = "open"

\* ------------------------------------------------------- prefix properties
DefaultPrefixSet == <<"j!", "j?", "j^", "j&", "j$", "j}", "j#", "j~", "j:">>

AlternatePrefixSet == <<"j?", "j^", "j&", "j$", "j}", "j#", "j~", "j:">>

\* C11: with developer_mode set, get_command_prefix returns the one fixed
\* prefix "jd!" for every origin, a direct message included, and never fails.
C11_DeveloperPrefix ==
    (prefix.origin # "n/a" /\ config.developer_mode) =>
        /\ ~prefix.raised
        /\ prefix.kind = "str" /\ prefix.value = <<"jd!">>

\* developer_mode set and the message is a direct message.
C11_Witness ==
    config.developer_mode /\ prefix.origin = "none" /\ prefix.value = <<"jd!">>

\* C12: with developer_mode off, a message of the designated guild gets the
\* alternate set (the default nine without "j!") and a message of any other
\* guild gets the default nine-prefix set.
C12_GuildPrefixSets ==
    (~config.developer_mode /\ prefix.origin \notin {"n/a", "none"}) =>
        /\ ~prefix.raised /\ prefix.kind = "list"
        /\ prefix.value = IF prefix.origin = DesignatedGuild
                          THEN AlternatePrefixSet
                          ELSE DefaultPrefixSet
        /\ Len(DefaultPrefixSet) = 9
        /\ Range(AlternatePrefixSet) = Range(DefaultPrefixSet) \ {"j!"}

\* developer_mode off and the message comes from the designated guild.
C12_Witness ==
    /\ ~config.developer_mode /\ prefix.origin = DesignatedGuild
    /\ Len(prefix.value) = 8 /\ "j!" \notin Range(prefix.value)

C12_WitnessOther ==
    /\ ~config.developer_mode /\ prefix.origin = "81384788765712384"
    /\ Len(prefix.value) = 9

\* C13: with developer_mode off, a direct message (no guild) gets the
\* default prefix set and get_command_prefix does not raise.
C13_DirectMessageDefault ==
    (~config.developer_mode /\ prefix.origin = "none") =>
        ~prefix.raised /\ prefix.value = DefaultPrefixSet

\* C19: for every error passed to on_command_error, of any category and with
\* the error channel resolvable or not, on_command_error completes normally:
\* nothing raised while building or sending the reply or the report leaves it.
C19_TranslatorCompletes ==
    ev.error # "none" => ~ev.raised

\* C20: for an error that is not handler-internal, on_command_error issues
\* exactly one reply (one send to the invoking channel, and nothing after it)
\* when the error is a check failure, a missing-required-argument error or a
\* cooldown error, and no reply at all, and no failure of its own, for every
\* other category.  A send that raises leaves no message behind.
C20_OneReplyOrNone ==
    (ev.error \notin {"none", "CommandInvokeError"}) =>
        IF ev.error \in RepliedKinds
        THEN /\ ~ev.raised => ev.sent = <<Msg("invoking", ev.error)>>
             /\ ev.raised => ev.sent = <<>>
        ELSE ev.sent = <<>> /\ ~ev.raised

\* A cooldown error answered with its one reply.
C20_Witness ==
    /\ ev.error = "CommandOnCooldown" /\ ~ev.raised
    /\ ev.sent = <<Msg("invoking", "CommandOnCooldown")>>

\* An error of another category, left without a reply.
C20_WitnessOther ==
    ev.error = "BadArgument" /\ ev.sent = <<>> /\ ev.pc = "returned"

\* C18: every reconnect or resume signal raised while polling replaces the
\* transport handle by a new one whose resume flag is set exactly for the
\* resume kind, and the loop test runs next; the session holds one handle,
\* the one made for the latest signal; the handle changes on no other step
\* but the start of connect().
C18_HandleReplacedOnSignal ==
    [][/\ (ws' # ws =>
              \/ /\ link.pc = "start"
                 /\ ws' = [id |-> 1, resume |-> FALSE]
                 /\ link'.signals = link.signals
              \/ /\ link.pc = "polling"
                 /\ link'.signals = link.signals + 1
                 /\ ws'.id = ws.id + 1
                 /\ ws'.resume = (link'.signal = "ResumeWebSocket")
                 /\ link'.pc = LoopTest(is_closed))
       /\ (link'.signals # link.signals => ws' # ws)
       /\ (link'.pc # "start" => ws'.id = link'.signals + 1)]_vars

\* Two signals, the second of the resume kind.
C18_Witness ==
    /\ ws.id = 3 /\ ws.resume /\ link.signals = 2
    /\ link.signal = "ResumeWebSocket" /\ link.pc = "polling"

C18_WitnessReconnect ==
    ws.id = 2 /\ ~ws.resume /\ link.signal = "ReconnectWebSocket"

\* ----------------------------------------------------- currency properties
\* C21: raffle can be run once per hour per user: however the user's raffle
\* invocations follow or interleave, no two of them change the balance less
\* than 3600 seconds apart, and an invocation rejected with the "already
\* bought" reply leaves the balance unchanged.
C21_OncePerHour ==
    /\ \A p, q \in Invocations :
           (p # q /\ bank.h[p].changedAt >= 0 /\ bank.h[q].changedAt >= 0)
               => Abs(bank.h[p].changedAt - bank.h[q].changedAt) >= CooldownWindow
    /\ \A p \in Invocations :
           bank.h[p].branch = "rejected"
               => bank.h[p].changedAt = -1 /\ bank.h[p].reply = "already bought"

\* C22: whenever raffle takes the debt-collector branch (it read a balance
\* <= 0 and announced "You are now debt free"), the stored balance right
\* after that handler's update is strictly positive, whatever other raffle
\* or daily handlers of the same user did between the read and the update.
C22_DebtFreePositive ==
    \A p \in Invocations :
        (bank.h[p].branch = "debt" /\ bank.h[p].pc = "done")
            => bank.h[p].after > 0

\* ---------------------------------------------------- migration properties
\* C23: migration afc57bd04606 is reversible: from every schema in which
\* upgrade() applies, upgrade() followed by downgrade() ends without an
\* error and leaves exactly the original columns and constraints.
C23_UpgradeDowngradeRestores ==
    schema.pc = "downgraded" =>
        /\ schema.raised = "none"
        /\ schema.cols = schema.orig.cols
        /\ schema.uniques = schema.orig.uniques

\* ------------------------------------------------------ startup properties
ReadyFinished == ready.pc = "idle" /\ ready.run > 0 /\ ready.exc = "none"

\* C4: when connecting the relational, the document-log or the cache adapter
\* fails in on_ready, the session is logged out and on_ready stops: from then
\* on that run loads no cog, schedules no ready hook and starts no rotator
\* task (the registry, the task list and the rotator handle stay as they were).
C4_ConnectFailureAborts ==
    [][ready'.exc # "none" =>
          /\ ready'.logout /\ is_closed' /\ ready'.pc = "idle"
          /\ ready'.attempted = <<>> /\ ready'.hooks = {} /\ ~ready'.started
          /\ extensions' = extensions
          /\ Len(tasks') = Len(tasks)
          /\ rotator_task' = rotator_task]_vars

\* A re-handshake whose cache connect is refused, with cogs and a rotator
\* task left over from the first run.
C4_Witness ==
    /\ ready.exc = "ConnectionRefusedError" /\ ready.logout
    /\ ready.run = 2 /\ extensions # {} /\ rotator_task = 1

\* C5: whatever entries of the autoload list raise, every entry is attempted
\* in order, every entry that did not raise is registered, and on_ready ends
\* normally with the rotator task started.
C5_CogFailureContained ==
    ReadyFinished =>
        /\ ready.attempted = config.autoload
        /\ \A i \in DOMAIN config.autoload :
               i \notin ready.failing => config.autoload[i] \in extensions
        /\ ~ready.raised /\ ready.started
        /\ rotator_task = Len(tasks) /\ rotator_task > 0

\* The first of two entries raised and the second one was loaded.
C5_Witness ==
    /\ ReadyFinished /\ Len(config.autoload) = 2 /\ ready.failing = {1}
    /\ config.autoload[2] \in extensions /\ config.autoload[1] \notin extensions
    /\ ready.started

\* C6: when on_ready finds a rotator task of an earlier handshake (pending,
\* finished or failed), it requests its cancellation, logs what result()
\* raises, does not raise itself and starts a fresh rotator task.
C6_OldRotatorRetired ==
    (ReadyFinished /\ ready.old # "none") =>
        /\ ~ready.raised /\ ready.started
        /\ rotator_task = Len(tasks) /\ rotator_task > 1
        /\ \A t \in 1..(Len(tasks) - 1) : tasks[t].cancel \/ TaskDone(tasks[t])
        /\ (ready.old # "finished" => "old rotator exception" \in ready.log)

\* The old task had failed with an exception of its own.
C6_Witness ==
    /\ ReadyFinished /\ ready.old = "failed" /\ ready.started
    /\ "old rotator exception" \in ready.log

C6_WitnessRunning == ReadyFinished /\ ready.old = "sleep" /\ ready.started

C6_WitnessFinished == ReadyFinished /\ ready.old = "finished" /\ ready.started

\* ------------------------------------------------------ rotator properties
UpdatesOf(t) == SelectSeq(presence, LAMBDA u : u[1] = t)

\* C14: with a non-empty game_rotation of length n, the k-th presence update
\* of a rotator task (k = 0, 1, ...) carries entry k mod n, one 15-unit sleep
\* lies between consecutive updates, and the task never ends by itself: while
\* it is neither cancelled nor failed in change_presence its next step is
\* enabled (up to MaxUpdates updates).
C14_RotatorCycles ==
    Rotation # <<>> =>
        \A t \in DOMAIN tasks :
            /\ Len(UpdatesOf(t)) = tasks[t].k
            /\ \A j \in 1..tasks[t].k :
                   UpdatesOf(t)[j][2] = Rotation[((j - 1) % Len(Rotation)) + 1]
            /\ tasks[t].naps = (IF tasks[t].k = 0 THEN 0 ELSE tasks[t].k - 1)
            /\ tasks[t].slept = SleepInterval * tasks[t].naps
            /\ tasks[t].st # "finished"
            /\ (tasks[t].st = "failed" => tasks[t].k > 0)
            /\ (~tasks[t].cancel /\ tasks[t].st = "new" => ENABLED RotatorStart(t))
            /\ (~tasks[t].cancel /\ tasks[t].st = "presence" =>
                   ENABLED PresenceDone(t, TRUE))
            /\ (~tasks[t].cancel /\ tasks[t].st = "sleep" /\ tasks[t].k < MaxUpdates =>
                   ENABLED SleepDone(t))

\* A task that wrapped around a two-entry list: "x", "y", "x".
C14_Witness ==
    /\ Len(Rotation) = 2
    /\ \E t \in DOMAIN tasks :
           /\ tasks[t].k = 3 /\ tasks[t].slept = 2 * SleepInterval
           /\ UpdatesOf(t) = <<<<t, "x">>, <<t, "y">>, <<t, "x">>>>

\* C15 as claimed: with an empty game_rotation the rotator task stays alive,
\* issuing nothing and raising nothing, and ends only by being cancelled.
C15_EmptyRotationIdles ==
    Rotation = <<>> =>
        /\ presence = <<>>
        /\ \A t \in DOMAIN tasks : TaskDone(tasks[t]) => tasks[t].st = "cancelled"

\* C15 (amended): with an empty game_rotation the rotator task issues no
\* presence update and raises nothing, but it does not stay alive: the first
\* time it runs it ends normally; only a task cancelled before it ever ran
\* ends cancelled.
C15_EmptyRotationEnds ==
    Rotation = <<>> =>
        /\ presence = <<>>
        /\ \A t \in DOMAIN tasks :
               /\ tasks[t].st \in {"new", "finished", "cancelled"}
               /\ tasks[t].k = 0
               /\ (tasks[t].st = "cancelled" => tasks[t].cancel)
               /\ (tasks[t].st = "new" /\ ~tasks[t].cancel => ENABLED RotatorStart(t))

\* An uncancelled rotator task over an empty list that has ended.
C15_Witness ==
    /\ Rotation = <<>>
    /\ \E t \in DOMAIN tasks : tasks[t].st = "finished" /\ ~tasks[t].cancel

\* C16: at most one rotator task is active at any time: when on_ready creates
\* a rotator task, every earlier one has already terminated (was cancelled
\* and drained), so that no two of them can issue presence updates.
C16_OneActiveRotator ==
    /\ \A t \in DOMAIN tasks : t < Len(tasks) => TaskDone(tasks[t])
    /\ Cardinality({t \in DOMAIN tasks : ~TaskDone(tasks[t])}) <= 1

\* C17: cancelling a rotator task that is suspended in its sleep, as on_ready
\* does on a re-handshake, ends it with no further presence update and
\* leaves no error-level log entry.
C17_CleanCancel ==
    (ReadyFinished /\ ready.old = "sleep") =>
        /\ tasks[Len(tasks) - 1].st \in {"sleep", "cancelled"}
        /\ "old rotator exception" \notin ready.log

====
